---- MODULE Spec2Model ----
(***************************************************************************)
(* Fleet API: the demand-matching endpoint POST /demand/check              *)
(* (app/routers/demand.py) over the Equipment, Workshop and Workorder      *)
(* tables (app/models.py).                                                 *)
(*                                                                         *)
(* Representation                                                          *)
(*   strings      sequences of one-character strings, so that LIKE         *)
(*                patterns, lower() and substrings can be computed         *)
(*   None         the integer -1 (dates are days >= 1, coordinates are     *)
(*                milli-degrees >= 0, distances are metres >= 0)           *)
(*   dates        day numbers                                              *)
(*   coordinates  milli-degrees, on a small grid next to (0, 0)            *)
(*   distances    metres; distance_km (rounded to 0.1 km) in tenths of km  *)
(*   tables       sequences of rows in table (rowid) order                 *)
(***************************************************************************)
EXTENDS Integers, Sequences, FiniteSets, TLC

VARIABLES
    workshops,   \* table "workshops": Seq of Workshop rows
    equipment,   \* table "equipment": Seq of Equipment rows
    workorders,  \* table "workorders": Seq of Workorder rows
    result,      \* response of the last check_demand call (status 0: none yet)
    locals,      \* local variables of the last check_demand call at its exit
    calls,       \* the check_demand calls in progress, one per client (SpecConc only)
    avail,       \* last direct evaluation of is_available (SpecAvail only)
    hav,         \* last direct evaluation of haversine_km (SpecHav only)
    reply,       \* response of the last store operation (SpecStore only)
    stores       \* per client, the states the store has been in since its call began

vars == <<workshops, equipment, workorders, result, locals, calls, avail, hav, reply, stores>>

None == -1

----------------------------------------------------------------------------
(* Bounds of the model *)

MaxWs  == 2      \* rows in the workshops table
MaxEq  == 2      \* rows in the equipment table
MaxDay == 4      \* days are 1..MaxDay
MaxQty == 2      \* requested quantity is 0..MaxQty
MaxWo  == 1      \* rows in the workorders table
MaxClients == 2  \* clients that call check_demand at the same time
MaxRows == 2     \* rows in an uploaded file
MaxWrites == 1   \* commits of other clients while one check_demand call runs

----------------------------------------------------------------------------
(* Strings *)

\* str.lower() / SQL lower() on one character of the model's alphabet
LowerChar(c) ==
    CASE c = "A" -> "a"
      [] c = "B" -> "b"
      [] OTHER   -> c

\* str.lower()
Lower(s) == [i \in 1..Len(s) |-> LowerChar(s[i])]

\* SQL LIKE: % matches any run of characters, _ any one character
RECURSIVE Like(_, _)
Like(s, p) ==
    IF p = <<>> THEN s = <<>>
    ELSE IF Head(p) = "%"
         THEN Like(s, Tail(p)) \/ (s # <<>> /\ Like(Tail(s), p))
         ELSE /\ s # <<>>
              /\ (Head(p) = "_" \/ Head(p) = Head(s))
              /\ Like(Tail(s), Tail(p))

\* Column.ilike(pattern): lower(column) LIKE lower(pattern); the pattern is
\* used as given, no % is added around it
ILike(column, pattern) == Like(Lower(column), Lower(pattern))

----------------------------------------------------------------------------
(* Distance *)

R == 6371              \* Earth radius, km

\* integer square root
ISqrt(n) == CHOOSE r \in 0..n : r * r <= n /\ (r + 1) * (r + 1) > n

\* haversine_km with the absence test written as a truth test, which takes
\* a coordinate of 0 for an absent one
haversine_km_Falsy(lat1, lon1, lat2, lon2) ==
    IF None \in {lat1, lon1, lat2, lon2} \/ 0 \in {lat1, lon1, lat2, lon2} THEN None
    ELSE LET dphi == lat2 - lat1
             dlmb == lon2 - lon1
         IN  (R * 355 * ISqrt(100 * (dphi * dphi + dlmb * dlmb)))
                 \div (113 * 180 * 10)

\* haversine_km with the longitudes added instead of subtracted
haversine_km_LonSum(lat1, lon1, lat2, lon2) ==
    IF None \in {lat1, lon1, lat2, lon2} THEN None
    ELSE LET dphi == lat2 - lat1
             dlmb == lon2 + lon1
         IN  (R * 355 * ISqrt(100 * (dphi * dphi + dlmb * dlmb)))
                 \div (113 * 180 * 10)

\* haversine_km, in metres, for coordinates in milli-degrees.  On the model's
\* grid (a few milli-degrees around (0, 0)) cos(p1) = cos(p2) = 1 and
\* asin(sqrt(a)) = sqrt(a) to nine digits, so the distance is
\* R * radians(sqrt(dphi^2 + dlmb^2)), with pi = 355/113.
haversine_km(lat1, lon1, lat2, lon2) ==
    IF None \in {lat1, lon1, lat2, lon2} THEN None
    ELSE LET dphi == lat2 - lat1
             dlmb == lon2 - lon1
         IN  (R * 355 * ISqrt(100 * (dphi * dphi + dlmb * dlmb)))
                 \div (113 * 180 * 10)

\* round(dist, 1): metres to tenths of a kilometre, ties to even
Round1(d) ==
    LET q == d \div 100
        r == d % 100
    IN  IF r > 50 \/ (r = 50 /\ q % 2 = 1) THEN q + 1 ELSE q

----------------------------------------------------------------------------
(* check_demand *)

\* is_available with only the two named statuses refused
is_available_NamedStatuses(e, start_date, end_date) ==
    IF e.status \in {"UnderMaintenance", "Allocated"} THEN FALSE
    ELSE IF e.start_date # None /\ e.end_date # None
         THEN LET overlap == (e.start_date <= end_date) /\ (start_date <= e.end_date)
              IN  ~overlap
         ELSE TRUE

\* is_available with an open-interval overlap test
is_available_StrictOverlap(e, start_date, end_date) ==
    IF e.status # "ReadyToUse" THEN FALSE
    ELSE IF e.start_date # None /\ e.end_date # None
         THEN LET overlap == (e.start_date < end_date) /\ (start_date < e.end_date)
              IN  ~overlap
         ELSE TRUE

\* is_available with the overlap test entered when either own date is set
is_available_EitherDate(e, start_date, end_date) ==
    IF e.status # "ReadyToUse" THEN FALSE
    ELSE IF e.start_date # None \/ e.end_date # None
         THEN LET overlap == (e.start_date <= end_date) /\ (start_date <= e.end_date)
              IN  ~overlap
         ELSE TRUE

\* is_available(e), closed over the request's start_date and end_date
is_available(e, start_date, end_date) ==
    IF e.status # "ReadyToUse" THEN FALSE
    ELSE IF e.start_date # None /\ e.end_date # None
         THEN LET overlap == (e.start_date <= end_date) /\ (start_date <= e.end_date)
              IN  ~overlap
         ELSE TRUE

\* db.query(Workshop).filter(Workshop.camp_name.ilike(camp_name)).first():
\* the first matching row as a sequence of one row, or <<>> for None
HomeWs(ws_table, camp_name) ==
    LET hits == SelectSeq(ws_table, LAMBDA w : ILike(w.camp_name, camp_name))
    IN  IF hits = <<>> THEN <<>> ELSE <<hits[1]>>

\* the equipment query with substring patterns, as the list endpoints build them
QueryEquipment_Substring(eq_table, camp, name) ==
    SelectSeq(eq_table, LAMBDA e : /\ ILike(e.camp_name, <<"%">> \o camp \o <<"%">>)
                                /\ ILike(e.equipment_name, <<"%">> \o name \o <<"%">>))

\* db.query(Equipment).filter(camp_name.ilike(camp)).filter(equipment_name.ilike(name)).all()
QueryEquipment(eq_table, camp, name) ==
    SelectSeq(eq_table, LAMBDA e : ILike(e.camp_name, camp) /\ ILike(e.equipment_name, name))

\* home_elems with every ReadyToUse record kept, blocked or not
HomeElems_ByStatus(q_home, req) ==
    SelectSeq(q_home, LAMBDA e : e.status = "ReadyToUse")

\* home_elems = [e for e in q_home.all() if is_available(e)]
HomeElems(q_home, req) ==
    SelectSeq(q_home, LAMBDA e : is_available(e, req.start_date, req.end_date))

\* meets with a strict comparison
Meets_Strict(available_home, quantity) == available_home > quantity

\* meets = available_home >= quantity
Meets(available_home, quantity) == available_home >= quantity

\* the skip tests with a workshop exactly on the radius skipped too
IsCandidate_StrictRadius(ws, home_ws, req) ==
    LET dist == haversine_km(home_ws.location_lat, home_ws.location_lon,
                             ws.location_lat, ws.location_lon)
    IN  /\ Lower(ws.camp_name) # Lower(req.camp_name)
        /\ ~(dist = None \/ dist >= req.radius_km)

\* the skip tests without the test for an unknown distance
IsCandidate_UnknownKept(ws, home_ws, req) ==
    LET dist == haversine_km(home_ws.location_lat, home_ws.location_lon,
                             ws.location_lat, ws.location_lon)
    IN  /\ Lower(ws.camp_name) # Lower(req.camp_name)
        /\ ~(dist > req.radius_km)

\* the loop's two skip tests for one workshop: the home camp by name, then
\* an unknown or too large distance
IsCandidate(ws, home_ws, req) ==
    LET dist == haversine_km(home_ws.location_lat, home_ws.location_lon,
                             ws.location_lat, ws.location_lon)
    IN  /\ Lower(ws.camp_name) # Lower(req.camp_name)
        /\ ~(dist = None \/ dist > req.radius_km)

\* the entry with the requested window applied to the maintenance count too
AltEntry_MaintByWindow(ws, home_ws, eq_table, req) ==
    LET dist == haversine_km(home_ws.location_lat, home_ws.location_lon,
                             ws.location_lat, ws.location_lon)
        eq   == QueryEquipment(eq_table, ws.camp_name, req.equipment_name)
        free(e) == \/ e.start_date = None
                   \/ e.end_date = None
                   \/ ~((e.start_date <= req.end_date) /\ (req.start_date <= e.end_date))
        maint == Cardinality({i \in 1..Len(eq) :
                     eq[i].status = "UnderMaintenance" /\ free(eq[i])})
        ready == Cardinality({i \in 1..Len(eq) :
                     /\ eq[i].status # "UnderMaintenance"
                     /\ eq[i].status = "ReadyToUse"
                     /\ is_available(eq[i], req.start_date, req.end_date)})
    IN  [camp_name   |-> ws.camp_name,
         workshop_id |-> ws.workshop_id,
         distance_km |-> Round1(dist),
         location    |-> [lat |-> ws.location_lat, lon |-> ws.location_lon],
         counts      |-> [ready_to_use |-> ready, under_maintenance |-> maint]]

\* the entry with every ReadyToUse record counted as ready, blocked or not
AltEntry_ReadyByStatus(ws, home_ws, eq_table, req) ==
    LET dist == haversine_km(home_ws.location_lat, home_ws.location_lon,
                             ws.location_lat, ws.location_lon)
        eq   == QueryEquipment(eq_table, ws.camp_name, req.equipment_name)
        maint == Cardinality({i \in 1..Len(eq) : eq[i].status = "UnderMaintenance"})
        ready == Cardinality({i \in 1..Len(eq) : eq[i].status = "ReadyToUse"})
    IN  [camp_name   |-> ws.camp_name,
         workshop_id |-> ws.workshop_id,
         distance_km |-> Round1(dist),
         location    |-> [lat |-> ws.location_lat, lon |-> ws.location_lon],
         counts      |-> [ready_to_use |-> ready, under_maintenance |-> maint]]

\* the entry appended to alts for one workshop that was not skipped
AltEntry(ws, home_ws, eq_table, req) ==
    LET dist == haversine_km(home_ws.location_lat, home_ws.location_lon,
                             ws.location_lat, ws.location_lon)
        eq   == QueryEquipment(eq_table, ws.camp_name, req.equipment_name)
        maint == Cardinality({i \in 1..Len(eq) : eq[i].status = "UnderMaintenance"})
        ready == Cardinality({i \in 1..Len(eq) :
                     /\ eq[i].status # "UnderMaintenance"
                     /\ eq[i].status = "ReadyToUse"
                     /\ is_available(eq[i], req.start_date, req.end_date)})
    IN  [camp_name   |-> ws.camp_name,
         workshop_id |-> ws.workshop_id,
         distance_km |-> Round1(dist),
         location    |-> [lat |-> ws.location_lat, lon |-> ws.location_lon],
         counts      |-> [ready_to_use |-> ready, under_maintenance |-> maint]]

\* key(x) < key(y): with it an entry is placed before the entries it ties with
KeyLeq_Strict(x, y) ==
    \/ x.distance_km < y.distance_km
    \/ /\ x.distance_km = y.distance_km
       /\ (0 - x.counts.ready_to_use) < (0 - y.counts.ready_to_use)

\* the sort key with the ready count ascending: (distance_km, ready_to_use)
KeyLeq_ReadyAscending(x, y) ==
    \/ x.distance_km < y.distance_km
    \/ /\ x.distance_km = y.distance_km
       /\ x.counts.ready_to_use <= y.counts.ready_to_use

\* key(x) <= key(y) for the sort key (distance_km, -ready_to_use)
KeyLeq(x, y) ==
    \/ x.distance_km < y.distance_km
    \/ /\ x.distance_km = y.distance_km
       /\ (0 - x.counts.ready_to_use) <= (0 - y.counts.ready_to_use)

\* list.sort(key=...): stable, ascending
RECURSIVE SortAlts(_)
SortAlts(alts) ==
    IF alts = <<>> THEN <<>>
    ELSE LET n      == Len(alts)
             x      == alts[n]
             sorted == SortAlts(SubSeq(alts, 1, n - 1))
             k      == Cardinality({i \in 1..Len(sorted) : KeyLeq(sorted[i], x)})
         IN  SubSeq(sorted, 1, k) \o <<x>> \o SubSeq(sorted, k + 1, Len(sorted))

\* step 4 with the workshops that hold no matching equipment left out
Alternatives_WithEquipment(ws_table, eq_table, home_ws, req) ==
    LET all_ws == ws_table
        kept   == SelectSeq(all_ws, LAMBDA ws :
                      /\ IsCandidate(ws, home_ws, req)
                      /\ QueryEquipment(eq_table, ws.camp_name, req.equipment_name) # <<>>)
        alts   == [i \in 1..Len(kept) |-> AltEntry(kept[i], home_ws, eq_table, req)]
    IN  SortAlts(alts)

\* step 4: the alternatives within the radius, sorted
Alternatives(ws_table, eq_table, home_ws, req) ==
    LET all_ws == ws_table
        kept   == SelectSeq(all_ws, LAMBDA ws : IsCandidate(ws, home_ws, req))
        alts   == [i \in 1..Len(kept) |-> AltEntry(kept[i], home_ws, eq_table, req)]
    IN  SortAlts(alts)

\* the local variables of check_demand when it returns or raises: its
\* parameters (req) and, once home_ws is found, the home-camp evaluation
Locals(ws_table, eq_table, req) ==
    LET first   == HomeWs(ws_table, req.camp_name)
        q_home  == QueryEquipment(eq_table, req.camp_name, req.equipment_name)
        home_elems == HomeElems(q_home, req)
    IN  IF first = <<>>
        THEN [found |-> FALSE, req |-> req]
        ELSE [found          |-> TRUE,
              req            |-> req,
              home_ws        |-> first[1],
              q_home         |-> q_home,
              home_elems     |-> home_elems,
              available_home |-> Len(home_elems),
              meets          |-> Meets(Len(home_elems), req.quantity)]

\* the alternatives built without the early return
ResultAlternatives_Always(meets, ws_table, eq_table, home_ws, req) ==
    Alternatives(ws_table, eq_table, home_ws, req)

\* result["alternatives"]: [] when the home camp meets the demand (early
\* return), the sorted alts otherwise
ResultAlternatives(meets, ws_table, eq_table, home_ws, req) ==
    IF meets THEN <<>> ELSE Alternatives(ws_table, eq_table, home_ws, req)

\* the result dict with the map centre filled in only when the map is shown
ResultDict_CenterWhenShown(l, ws_table, eq_table) ==
    [status    |-> 200,
     camp_name |-> l.req.camp_name,
     requested |-> [equipment_name |-> l.req.equipment_name,
                    start_date     |-> l.req.start_date,
                    end_date       |-> l.req.end_date,
                    quantity       |-> l.req.quantity],
     availability |-> [available         |-> l.available_home,
                       meets_requirement |-> l.meets],
     ui |-> [show_map  |-> ~l.meets,
             center    |-> IF l.meets THEN [lat |-> None, lon |-> None]
                           ELSE [lat |-> l.home_ws.location_lat,
                                 lon |-> l.home_ws.location_lon],
             radius_km |-> l.req.radius_km],
     alternatives |-> ResultAlternatives(l.meets, ws_table, eq_table, l.home_ws, l.req)]

\* the result dict of a call whose home camp was found
ResultDict(l, ws_table, eq_table) ==
    [status    |-> 200,
     camp_name |-> l.req.camp_name,
     requested |-> [equipment_name |-> l.req.equipment_name,
                    start_date     |-> l.req.start_date,
                    end_date       |-> l.req.end_date,
                    quantity       |-> l.req.quantity],
     availability |-> [available         |-> l.available_home,
                       meets_requirement |-> l.meets],
     ui |-> [show_map  |-> ~l.meets,
             center    |-> [lat |-> l.home_ws.location_lat,
                            lon |-> l.home_ws.location_lon],
             radius_km |-> l.req.radius_km],
     alternatives |-> ResultAlternatives(l.meets, ws_table, eq_table, l.home_ws, l.req)]

\* the response: HTTPException(404) or the result dict
Response(ws_table, eq_table, req) ==
    LET l == Locals(ws_table, eq_table, req)
    IN  IF ~l.found
        THEN [status |-> 404, camp_name |-> req.camp_name]
        ELSE ResultDict(l, ws_table, eq_table)

----------------------------------------------------------------------------
(* Values the tables and the requests are drawn from *)

\* camp names stored in the two tables
CampNames == {<<"a">>, <<"A", "b">>}

\* equipment names stored in the equipment table
EquipmentNames == {<<"a", "b">>}

\* workshop coordinates (lat, lon) in milli-degrees; 9 milli-degrees of
\* latitude are 1000 m
Coordinates == {<<0, 0>>, <<9, 0>>, <<None, 0>>}

\* the three documented statuses
ALLOWED_STATUS == {"ReadyToUse", "UnderMaintenance", "Allocated"}

\* the status column is a free string: the documented values and another one
Statuses == ALLOWED_STATUS \cup {"Retired"}

\* planned occupancy windows of stored equipment (start_date, end_date)
OwnWindows == {<<None, None>>, <<2, 3>>}

Days == 1..MaxDay

\* a workshops table of n rows: workshop_id is the row's position
WorkshopTables(n) ==
    { [i \in 1..n |-> [workshop_id  |-> i,
                       camp_name    |-> f[i][1],
                       location_lat |-> f[i][2][1],
                       location_lon |-> f[i][2][2]]] :
      f \in [1..n -> CampNames \X Coordinates] }

\* an equipment table of n rows: equipment_id is the row's position; region
\* and next_maintenance_date, which check_demand never reads, are left unset
EquipmentTables(n) ==
    { [i \in 1..n |-> [equipment_id   |-> i,
                       equipment_name |-> f[i][1],
                       camp_name      |-> f[i][2],
                       region         |-> None,
                       status         |-> f[i][3],
                       next_maintenance_date |-> None,
                       start_date     |-> f[i][4][1],
                       end_date       |-> f[i][4][2]]] :
      f \in [1..n -> EquipmentNames \X CampNames \X ALLOWED_STATUS \X OwnWindows] }

\* the requests check_demand is called with: camp names that match a stored
\* name exactly ("a"), up to case ("aB") and as a LIKE pattern ("_");
\* equipment names that match up to case ("Ab") and that are only a part of
\* the stored name ("A"); a window that meets the stored one on day 3 and
\* one that ends before it starts; radii of 500 m and 1000 m
ReqCampNames      == {<<"a">>, <<"a", "B">>, <<"_">>}
ReqEquipmentNames == {<<"A", "b">>, <<"A">>}
ReqWindows        == {<<3, 4>>, <<4, 1>>}
ReqRadii          == {500, 1000}

Requests ==
    { [camp_name      |-> c,
       equipment_name |-> n,
       start_date     |-> w[1],
       end_date       |-> w[2],
       quantity       |-> q,
       radius_km      |-> r] :
      c \in ReqCampNames, n \in ReqEquipmentNames, w \in ReqWindows,
      q \in 0..MaxQty, r \in ReqRadii }

NoCall == [status |-> 0]

\* the clients, each with at most one check_demand call in progress
Clients == 1..MaxClients

\* a client without a call in progress
Idle == [pc |-> "idle", req |-> NoCall, home_ws |-> <<>>, all_ws |-> <<>>,
         i |-> 0, alts |-> <<>>, result |-> NoCall, after |-> {}]

NoCalls == [c \in Clients |-> Idle]

\* no call in progress, no store state to remember
NoStores == [c \in Clients |-> {}]

----------------------------------------------------------------------------
(* The service: one client, one request at a time.  The service starts   *)
(* on a database that already holds any workshops and equipment within   *)
(* the bounds; check_demand does not query the workorders table, which   *)
(* is left empty here and is populated under SpecRank.                   *)

Init ==
    /\ workshops \in UNION {WorkshopTables(n) : n \in 0..MaxWs}
    /\ equipment \in UNION {EquipmentTables(n) : n \in 0..MaxEq}
    /\ workorders = <<>>
    /\ result = NoCall
    /\ reply = NoCall
    /\ stores = NoStores
    /\ locals = NoCall
    /\ avail = NoCall
    /\ calls = NoCalls
    /\ hav = NoCall

\* the handler with the available home-camp records marked Allocated
CheckDemand_Allocates(req) ==
    /\ result = NoCall
    /\ result' = Response(workshops, equipment, req)
    /\ locals' = Locals(workshops, equipment, req)
    /\ LET l == Locals(workshops, equipment, req)
           taken(e) == l.found /\ \E k \in 1..Len(l.home_elems) : l.home_elems[k] = e
       IN  equipment' = [i \in 1..Len(equipment) |->
                            IF taken(equipment[i])
                            THEN [equipment[i] EXCEPT !.status = "Allocated"]
                            ELSE equipment[i]]
    /\ UNCHANGED <<workshops, workorders, calls, avail, hav, reply, stores>>

\* POST /demand/check: the whole handler; the response waits in result
CheckDemand(req) ==
    /\ result = NoCall
    /\ result' = Response(workshops, equipment, req)
    /\ locals' = Locals(workshops, equipment, req)
    /\ UNCHANGED <<workshops, equipment, workorders, calls, avail, hav, reply, stores>>

\* the client takes the response
Deliver ==
    /\ result # NoCall
    /\ result' = NoCall
    /\ locals' = NoCall
    /\ UNCHANGED <<workshops, equipment, workorders, calls, avail, hav, reply, stores>>

Next ==
    \/ \E req \in Requests : CheckDemand(req)
    \/ Deliver

Spec == Init /\ [][Next]_vars

----------------------------------------------------------------------------
(* The ranking of alternatives: a home camp "a" and up to MaxWs other     *)
(* workshops of three camps, at distances from (0, 0) that differ but     *)
(* round to the same tenth of a kilometre, with a workorders table        *)

RankCampNames == {<<"a">>, <<"A", "b">>, <<"c">>}

\* from (0, 0): 0 m, 1000 m and 1022 m; the last two are both 1.0 km
\* after rounding
RankCoordinates == {<<0, 0>>, <<9, 0>>, <<9, 2>>}

RankStatuses == {"ReadyToUse", "UnderMaintenance"}

RankWorkshopTables(n) ==
    { [i \in 1..n |-> [workshop_id  |-> i,
                       camp_name    |-> f[i][1],
                       location_lat |-> f[i][2][1],
                       location_lon |-> f[i][2][2]]] :
      f \in [1..n -> RankCampNames \X RankCoordinates] }

RankEquipmentTables(n) ==
    { [i \in 1..n |-> [equipment_id   |-> i,
                       equipment_name |-> <<"a", "b">>,
                       camp_name      |-> f[i][1],
                       region         |-> None,
                       status         |-> f[i][2],
                       next_maintenance_date |-> None,
                       start_date     |-> None,
                       end_date       |-> None]] :
      f \in [1..n -> RankCampNames \X RankStatuses] }

\* a workorders table of n rows: workorder_number is the row's position
WorkorderTables(n) ==
    { [i \in 1..n |-> [workorder_number      |-> i,
                       equipment_id          |-> 1,
                       workorder_description |-> None,
                       workshop_id           |-> None,
                       maintenance_start_date |-> 2,
                       maintenance_end_date   |-> 3]] }

\* requests for camp "a" of one unit or more, with radii of 1000 m and 1100 m
RankRadii == {1000, 1100}

RankRequests ==
    { [camp_name      |-> <<"a">>,
       equipment_name |-> <<"A", "b">>,
       start_date     |-> 3,
       end_date       |-> 4,
       quantity       |-> q,
       radius_km      |-> r] :
      q \in 1..MaxQty, r \in RankRadii }

InitRank ==
    /\ workshops \in UNION {RankWorkshopTables(n) : n \in 0..(MaxWs + 1)}
    /\ equipment \in UNION {RankEquipmentTables(n) : n \in 0..MaxEq}
    /\ workorders \in UNION {WorkorderTables(n) : n \in 0..MaxWo}
    /\ result = NoCall
    /\ reply = NoCall
    /\ stores = NoStores
    /\ locals = NoCall
    /\ avail = NoCall
    /\ calls = NoCalls
    /\ hav = NoCall

NextRank ==
    \/ \E req \in RankRequests : CheckDemand(req)
    \/ Deliver

SpecRank == InitRank /\ [][NextRank]_vars

----------------------------------------------------------------------------
(* check_demand query by query: several clients call it at the same time, *)
(* each call in its own request and database session; a step of a call is *)
(* one query on the store with the Python code that follows it.  The      *)
(* store is not written.                                                  *)

\* the result dict as lines 59-74 build it, with "alternatives": []
ResultHead(req, home_ws, available_home, meets) ==
    [status    |-> 200,
     camp_name |-> req.camp_name,
     requested |-> [equipment_name |-> req.equipment_name,
                    start_date     |-> req.start_date,
                    end_date       |-> req.end_date,
                    quantity       |-> req.quantity],
     availability |-> [available         |-> available_home,
                       meets_requirement |-> meets],
     ui |-> [show_map  |-> ~meets,
             center    |-> [lat |-> home_ws.location_lat,
                            lon |-> home_ws.location_lon],
             radius_km |-> req.radius_km],
     alternatives |-> <<>>]

\* the request arrives; after holds the clients whose call had returned
\* by then and whose response is still at hand
StartCall(c, req) ==
    /\ calls[c].pc = "idle"
    /\ calls' = [calls EXCEPT ![c] =
                    [Idle EXCEPT !.pc = "home", !.req = req,
                                 !.after = {d \in Clients : calls[d].pc = "done"}]]
    /\ stores' = [stores EXCEPT ![c] = {<<workshops, equipment>>}]
    /\ UNCHANGED <<workshops, equipment, workorders, result, locals, avail, hav, reply>>

\* lines 33-35: the home workshop, or 404
QueryHomeWs(c) ==
    /\ calls[c].pc = "home"
    /\ LET home_ws == HomeWs(workshops, calls[c].req.camp_name)
       IN  calls' = [calls EXCEPT ![c] =
              IF home_ws = <<>>
              THEN [@ EXCEPT !.pc = "done",
                             !.result = [status |-> 404, camp_name |-> calls[c].req.camp_name]]
              ELSE [@ EXCEPT !.pc = "q_home", !.home_ws = home_ws]]
    /\ UNCHANGED <<workshops, equipment, workorders, result, locals, avail, hav, reply, stores>>

\* lines 38-77: the home-camp equipment, the result dict, the early return
QueryHomeEquipment(c) ==
    /\ calls[c].pc = "q_home"
    /\ LET req        == calls[c].req
           q_home     == QueryEquipment(equipment, req.camp_name, req.equipment_name)
           home_elems == HomeElems(q_home, req)
           available_home == Len(home_elems)
           meets      == Meets(available_home, req.quantity)
       IN  calls' = [calls EXCEPT ![c] =
              [@ EXCEPT !.pc = IF meets THEN "done" ELSE "all_ws",
                        !.result = ResultHead(req, calls[c].home_ws[1], available_home, meets)]]
    /\ UNCHANGED <<workshops, equipment, workorders, result, locals, avail, hav, reply, stores>>

\* lines 81-82 with alts started from the entries another call has returned
QueryAllWorkshops_KeepAlts(c) ==
    /\ calls[c].pc = "all_ws"
    /\ LET returned == {d \in Clients : calls[d].pc = "done" /\ calls[d].result.status = 200}
           kept == IF returned = {} THEN <<>>
                   ELSE calls[CHOOSE d \in returned : TRUE].result.alternatives
       IN  calls' = [calls EXCEPT ![c] =
                        [@ EXCEPT !.pc = "loop", !.all_ws = workshops, !.i = 1,
                                  !.alts = kept]]
    /\ UNCHANGED <<workshops, equipment, workorders, result, locals, avail, hav, reply, stores>>

\* lines 81-82: all_ws = db.query(Workshop).all(), alts = []
QueryAllWorkshops(c) ==
    /\ calls[c].pc = "all_ws"
    /\ calls' = [calls EXCEPT ![c] =
                    [@ EXCEPT !.pc = "loop", !.all_ws = workshops, !.i = 1,
                              !.alts = <<>>]]
    /\ UNCHANGED <<workshops, equipment, workorders, result, locals, avail, hav, reply, stores>>

\* one pass of the loop with the new entry appended to the alts of every
\* call that is in the loop
LoopStep_SharedAlts(c) ==
    /\ calls[c].pc = "loop"
    /\ calls[c].i <= Len(calls[c].all_ws)
    /\ LET ws == calls[c].all_ws[calls[c].i]
           home_ws == calls[c].home_ws[1]
           req == calls[c].req
       IN  calls' = [d \in Clients |->
              IF d = c
              THEN [calls[d] EXCEPT !.i = @ + 1,
                        !.alts = IF IsCandidate(ws, home_ws, req)
                                 THEN Append(@, AltEntry(ws, home_ws, equipment, req))
                                 ELSE @]
              ELSE IF calls[d].pc = "loop" /\ IsCandidate(ws, home_ws, req)
                   THEN [calls[d] EXCEPT !.alts =
                            Append(@, AltEntry(ws, home_ws, equipment, req))]
                   ELSE calls[d]]
    /\ UNCHANGED <<workshops, equipment, workorders, result, locals, avail, hav, reply, stores>>

\* lines 83-109: one pass of the loop, for the next workshop of all_ws: it
\* is skipped, or its equipment is queried and its entry is appended
LoopStep(c) ==
    /\ calls[c].pc = "loop"
    /\ calls[c].i <= Len(calls[c].all_ws)
    /\ LET ws == calls[c].all_ws[calls[c].i]
           home_ws == calls[c].home_ws[1]
           req == calls[c].req
       IN  calls' = [calls EXCEPT ![c] =
              [@ EXCEPT !.i = @ + 1,
                        !.alts = IF IsCandidate(ws, home_ws, req)
                                 THEN Append(@, AltEntry(ws, home_ws, equipment, req))
                                 ELSE @]]
    /\ UNCHANGED <<workshops, equipment, workorders, result, locals, avail, hav, reply, stores>>

\* lines 112-114: the loop is over; sort, fill in the alternatives, return
SortAndReturn(c) ==
    /\ calls[c].pc = "loop"
    /\ calls[c].i > Len(calls[c].all_ws)
    /\ calls' = [calls EXCEPT ![c] =
                    [@ EXCEPT !.pc = "done",
                              !.result = [@ EXCEPT !.alternatives = SortAlts(calls[c].alts)]]]
    /\ UNCHANGED <<workshops, equipment, workorders, result, locals, avail, hav, reply, stores>>

\* the client takes the response
Respond(c) ==
    /\ calls[c].pc = "done"
    /\ calls' = [d \in Clients |->
                    IF d = c THEN Idle
                    ELSE [calls[d] EXCEPT !.after = @ \ {c}]]
    /\ stores' = [stores EXCEPT ![c] = {}]
    /\ UNCHANGED <<workshops, equipment, workorders, result, locals, avail, hav, reply>>

ConcCoordinates == {<<0, 0>>, <<9, 0>>}

ConcWorkshopTables(n) ==
    { [i \in 1..n |-> [workshop_id  |-> i,
                       camp_name    |-> f[i][1],
                       location_lat |-> f[i][2][1],
                       location_lon |-> f[i][2][2]]] :
      f \in [1..n -> CampNames \X ConcCoordinates] }

\* requests of one unit for camp "a", as stored and in the other case
ConcRequests ==
    { [camp_name      |-> c,
       equipment_name |-> <<"A", "b">>,
       start_date     |-> 3,
       end_date       |-> 4,
       quantity       |-> 1,
       radius_km      |-> 1000] :
      c \in {<<"a">>, <<"A">>} }

InitConc ==
    /\ workshops \in UNION {ConcWorkshopTables(n) : n \in 0..MaxWs}
    /\ equipment \in UNION {RankEquipmentTables(n) : n \in 0..MaxEq}
    /\ workorders = <<>>
    /\ result = NoCall
    /\ reply = NoCall
    /\ stores = NoStores
    /\ locals = NoCall
    /\ calls = NoCalls
    /\ avail = NoCall
    /\ hav = NoCall

NextConc ==
    \E c \in Clients :
        \/ \E req \in ConcRequests : StartCall(c, req)
        \/ QueryHomeWs(c)
        \/ QueryHomeEquipment(c)
        \/ QueryAllWorkshops(c)
        \/ LoopStep(c)
        \/ SortAndReturn(c)
        \/ Respond(c)

SpecConc == InitConc /\ [][NextConc]_vars

----------------------------------------------------------------------------
(* is_available on its own: every status, every own window, every request *)

OptDays == Days \cup {None}

InitAvail ==
    /\ workshops = <<>>
    /\ equipment = <<>>
    /\ workorders = <<>>
    /\ result = NoCall
    /\ reply = NoCall
    /\ stores = NoStores
    /\ locals = NoCall
    /\ calls = NoCalls
    /\ hav = NoCall
    /\ avail \in [status : {1},
                  e : [status : Statuses, start_date : OptDays, end_date : OptDays],
                  start_date : Days, end_date : Days,
                  done : {FALSE}, ret : {FALSE}]

EvalIsAvailable ==
    /\ ~avail.done
    /\ avail' = [avail EXCEPT !.done = TRUE,
                              !.ret = is_available(avail.e, avail.start_date, avail.end_date)]
    /\ UNCHANGED <<workshops, equipment, workorders, result, locals, calls, hav, reply, stores>>

NextAvail == EvalIsAvailable

SpecAvail == InitAvail /\ [][NextAvail]_vars

----------------------------------------------------------------------------
(* The store operations of the routers: get, create, PATCH, delete and    *)
(* upload.  A handler is an operator from the table and the request to    *)
(* the response status and the table after the commit; a response other  *)
(* than 200 leaves the table as it was (the session is closed without a   *)
(* commit, or the failed commit is rolled back).                          *)
(*                                                                        *)
(* A PATCH body (data: dict) is a record [null, val]: null is the set of  *)
(* keys whose value is null, val maps the other keys to their values.     *)

\* the position of the row with primary key id, or 0: Query.get / db.get
Position(table, pk, id) ==
    LET hits == {i \in 1..Len(table) : table[i][pk] = id}
    IN  IF hits = {} THEN 0 ELSE CHOOSE i \in hits : TRUE

\* the table without its i-th row
Remove(table, i) == SubSeq(table, 1, i - 1) \o SubSeq(table, i + 1, Len(table))

\* the equipment table with a new row: equipment_id is the rowid, so the
\* rows stay in equipment_id order
InsertById(table, row) ==
    LET k == Cardinality({i \in 1..Len(table) : table[i].equipment_id < row.equipment_id})
    IN  SubSeq(table, 1, k) \o <<row>> \o SubSeq(table, k + 1, Len(table))

\* str.strip() for blanks
RECURSIVE LStrip(_)
LStrip(s) == IF s # <<>> /\ s[1] = " " THEN LStrip(Tail(s)) ELSE s

RECURSIVE RStrip(_)
RStrip(s) == IF s # <<>> /\ s[Len(s)] = " " THEN RStrip(SubSeq(s, 1, Len(s) - 1)) ELSE s

Strip(s) == RStrip(LStrip(s))

\* _apply_updates without the whitelist: every key of the body is assigned
apply_updates_AnyKey(obj, data, allowed) ==
    [k \in DOMAIN obj |->
        IF k \in DOMAIN data.val THEN data.val[k] ELSE obj[k]]

\* _apply_updates(obj, data, allowed), and the loop of update_equipment:
\* for k in allowed: if k in data and data[k] is not None: setattr(obj, k, data[k])
apply_updates(obj, data, allowed) ==
    [k \in DOMAIN obj |->
        IF k \in allowed /\ k \in DOMAIN data.val THEN data.val[k] ELSE obj[k]]

\* the keys update_equipment may assign
EquipmentKeys == {"equipment_name", "camp_name", "region", "status",
                  "start_date", "end_date", "next_maintenance_date"}

\* GET /equipment/{equipment_id}
get_equipment(eq_table, equipment_id) ==
    LET i == Position(eq_table, "equipment_id", equipment_id)
    IN  IF i = 0 THEN [status |-> 404, table |-> eq_table]
        ELSE [status |-> 200, table |-> eq_table, body |-> eq_table[i]]

\* POST /equipment/ without the test of the status against ALLOWED_STATUS
create_equipment_AnyStatus(eq_table, payload, generated) ==
    LET status == IF payload.status = "" THEN "ReadyToUse" ELSE payload.status
    IN  IF generated = 0 THEN [status |-> 500, table |-> eq_table]
        ELSE LET obj == [equipment_id   |-> generated,
                         equipment_name |-> Strip(payload.equipment_name),
                         camp_name      |-> Strip(payload.camp_name),
                         region         |-> None,
                         status         |-> status,
                         next_maintenance_date |-> None,
                         start_date     |-> payload.start_date,
                         end_date       |-> payload.end_date]
             IN  [status |-> 200, table |-> InsertById(eq_table, obj), body |-> obj]

\* POST /equipment/: the payload carries no equipment_id and the column is
\* declared autoincrement=False; generated is the id the database gives the
\* row, or 0 when the flush fails for want of a primary key
create_equipment(eq_table, payload, generated) ==
    LET status == IF payload.status = "" THEN "ReadyToUse" ELSE payload.status
    IN  IF status \notin ALLOWED_STATUS THEN [status |-> 400, table |-> eq_table]
        ELSE IF generated = 0 THEN [status |-> 500, table |-> eq_table]
        ELSE LET obj == [equipment_id   |-> generated,
                         equipment_name |-> Strip(payload.equipment_name),
                         camp_name      |-> Strip(payload.camp_name),
                         region         |-> None,
                         status         |-> status,
                         next_maintenance_date |-> None,
                         start_date     |-> payload.start_date,
                         end_date       |-> payload.end_date]
             IN  [status |-> 200, table |-> InsertById(eq_table, obj), body |-> obj]

\* PATCH with the status checked when it is assigned, after the keys that
\* come before it in the loop
update_equipment_ValidateLate(eq_table, equipment_id, data) ==
    LET i == Position(eq_table, "equipment_id", equipment_id)
    IN  IF i = 0 THEN [status |-> 404, table |-> eq_table]
        ELSE IF "status" \in DOMAIN data.val /\ data.val["status"] \notin ALLOWED_STATUS
             THEN [status |-> 400,
                   table  |-> [eq_table EXCEPT ![i] =
                                  apply_updates(@, data, {"equipment_name", "camp_name", "region"})]]
             ELSE [status |-> 200,
                   table  |-> [eq_table EXCEPT ![i] = apply_updates(@, data, EquipmentKeys)],
                   body   |-> apply_updates(eq_table[i], data, EquipmentKeys)]

\* PATCH /equipment/{equipment_id}
update_equipment(eq_table, equipment_id, data) ==
    LET i == Position(eq_table, "equipment_id", equipment_id)
    IN  IF i = 0 THEN [status |-> 404, table |-> eq_table]
        ELSE IF "status" \in DOMAIN data.val /\ data.val["status"] \notin ALLOWED_STATUS
             THEN [status |-> 400, table |-> eq_table]
             ELSE [status |-> 200,
                   table  |-> [eq_table EXCEPT ![i] = apply_updates(@, data, EquipmentKeys)],
                   body   |-> apply_updates(eq_table[i], data, EquipmentKeys)]

\* DELETE /equipment/{equipment_id}.  Equipment.workorders has no delete
\* cascade: the flush sets equipment_id of the workorders of the record to
\* NULL, the column is NOT NULL, the commit fails and nothing is deleted
delete_equipment(eq_table, wo_table, equipment_id) ==
    LET i == Position(eq_table, "equipment_id", equipment_id)
    IN  IF i = 0 THEN [status |-> 404, table |-> eq_table]
        ELSE IF \E k \in 1..Len(wo_table) : wo_table[k].equipment_id = equipment_id
             THEN [status |-> 500, table |-> eq_table]
             ELSE [status |-> 200, table |-> Remove(eq_table, i)]

\* one pass of the loop of upload_equipment, for the i-th row of the file.
\* s is the session: tbl holds the loaded rows with the assignments made so
\* far, pending the objects given to db.add.  The file has the columns
\* equipment_id, equipment_name, camp_name and, in some rows, a status; it
\* has no region and no date column, so these are assigned None.
UploadRow(s, row, i) ==
    LET pos      == Position(s.tbl, "equipment_id", row.equipment_id)
        creating == pos = 0
        name     == Strip(row.equipment_name)
        camp     == Strip(row.camp_name)
        status   == IF row.has_status THEN row.status ELSE "ReadyToUse"
        failed   == [s EXCEPT !.errors = Append(@, i + 2)]
    IN  IF row.equipment_id = None THEN failed
        ELSE IF name = <<>> \/ camp = <<>> THEN failed
        ELSE IF status \notin ALLOWED_STATUS
             THEN IF creating THEN failed
                  ELSE [failed EXCEPT !.tbl[pos].equipment_name = name,
                                      !.tbl[pos].camp_name = camp,
                                      !.tbl[pos].region = None]
        ELSE LET obj == [equipment_id   |-> row.equipment_id,
                         equipment_name |-> name,
                         camp_name      |-> camp,
                         region         |-> None,
                         status         |-> status,
                         next_maintenance_date |-> None,
                         start_date     |-> None,
                         end_date       |-> None]
             IN  IF creating
                 THEN [s EXCEPT !.pending = Append(@, obj), !.inserted = @ + 1]
                 ELSE [s EXCEPT !.tbl[pos] = obj, !.updated = @ + 1]

\* the loop of upload_equipment from row i on
RECURSIVE UploadRows(_, _, _)
UploadRows(s, rows, i) ==
    IF i > Len(rows) THEN s
    ELSE UploadRows(UploadRow(s, rows[i], i - 1), rows, i + 1)

\* the table with the pending objects inserted
RECURSIVE InsertAll(_, _)
InsertAll(table, pending) ==
    IF pending = <<>> THEN table
    ELSE InsertAll(InsertById(table, pending[1]), Tail(pending))

\* POST /equipment/upload: the loop, then db.commit(); the commit fails and
\* is rolled back when two pending objects carry the same equipment_id
upload_equipment(eq_table, rows) ==
    LET s == UploadRows([tbl |-> eq_table, pending |-> <<>>,
                         inserted |-> 0, updated |-> 0, errors |-> <<>>], rows, 1)
        clash == \E i, j \in 1..Len(s.pending) :
                    i # j /\ s.pending[i].equipment_id = s.pending[j].equipment_id
    IN  IF clash THEN [status |-> 500, table |-> eq_table]
        ELSE [status   |-> 200,
              table    |-> InsertAll(s.tbl, s.pending),
              inserted |-> s.inserted,
              updated  |-> s.updated,
              errors   |-> s.errors]

\* the keys crud.update_workshop may assign
WorkshopKeys == {"camp_name", "location_lat", "location_lon"}

\* GET /workshops/{workshop_id}: crud.get_workshop, 404 when it returns None
get_workshop(ws_table, workshop_id) ==
    LET i == Position(ws_table, "workshop_id", workshop_id)
    IN  IF i = 0 THEN [status |-> 404, table |-> ws_table]
        ELSE [status |-> 200, table |-> ws_table, body |-> ws_table[i]]

\* PATCH /workshops/{workshop_id}: crud.update_workshop; its ValueError
\* becomes 404
update_workshop(ws_table, workshop_id, data) ==
    LET i == Position(ws_table, "workshop_id", workshop_id)
    IN  IF i = 0 THEN [status |-> 404, table |-> ws_table]
        ELSE [status |-> 200,
              table  |-> [ws_table EXCEPT ![i] = apply_updates(@, data, WorkshopKeys)],
              body   |-> apply_updates(ws_table[i], data, WorkshopKeys)]

\* DELETE /workshops/{workshop_id}: crud.delete_workshop.  Workshop.workorders
\* has no delete cascade: the flush sets workshop_id of the workorders of
\* the workshop to NULL
delete_workshop(ws_table, wo_table, workshop_id) ==
    LET i == Position(ws_table, "workshop_id", workshop_id)
    IN  IF i = 0 THEN [status |-> 404, table |-> ws_table, workorders |-> wo_table]
        ELSE [status |-> 200, table |-> Remove(ws_table, i),
              workorders |-> [k \in 1..Len(wo_table) |->
                                 IF wo_table[k].workshop_id = workshop_id
                                 THEN [wo_table[k] EXCEPT !.workshop_id = None]
                                 ELSE wo_table[k]]]

\* the keys crud.update_workorder may assign
WorkorderKeys == {"equipment_id", "workorder_description", "workshop_id",
                  "maintenance_start_date", "maintenance_end_date"}

\* GET /workorders/{workorder_number}
get_workorder(wo_table, workorder_number) ==
    LET i == Position(wo_table, "workorder_number", workorder_number)
    IN  IF i = 0 THEN [status |-> 404, table |-> wo_table]
        ELSE [status |-> 200, table |-> wo_table, body |-> wo_table[i]]

\* PATCH /workorders/{workorder_number}: crud.update_workorder
update_workorder(wo_table, workorder_number, data) ==
    LET i == Position(wo_table, "workorder_number", workorder_number)
    IN  IF i = 0 THEN [status |-> 404, table |-> wo_table]
        ELSE [status |-> 200,
              table  |-> [wo_table EXCEPT ![i] = apply_updates(@, data, WorkorderKeys)],
              body   |-> apply_updates(wo_table[i], data, WorkorderKeys)]

\* a delete that answers without removing the row
delete_workorder_KeepsRow(wo_table, workorder_number) ==
    LET i == Position(wo_table, "workorder_number", workorder_number)
    IN  IF i = 0 THEN [status |-> 404, table |-> wo_table]
        ELSE [status |-> 200, table |-> wo_table]

\* DELETE /workorders/{workorder_number}: crud.delete_workorder
delete_workorder(wo_table, workorder_number) ==
    LET i == Position(wo_table, "workorder_number", workorder_number)
    IN  IF i = 0 THEN [status |-> 404, table |-> wo_table]
        ELSE [status |-> 200, table |-> Remove(wo_table, i)]

----------------------------------------------------------------------------
(* The routers at work on the store: one client, one operation at a time; *)
(* the response waits in reply until the client takes it                  *)

\* identifiers asked for: those a table can hold and one it never holds
EquipmentIds == 1..(MaxEq + 1)
WorkshopIds  == 1..2
WorkorderIds == 1..(MaxWo + 1)

\* the equipment table at the start: valid statuses, no dates
StoreEquipmentTables(n) ==
    { [i \in 1..n |-> [equipment_id   |-> i,
                       equipment_name |-> <<"a", "b">>,
                       camp_name      |-> <<"a">>,
                       region         |-> None,
                       status         |-> f[i],
                       next_maintenance_date |-> None,
                       start_date     |-> None,
                       end_date       |-> None]] :
      f \in [1..n -> ALLOWED_STATUS] }

\* the workshops table at the start: no row, or one workshop with a
\* latitude and without a longitude
StoreWorkshopTables ==
    { <<>>,
      <<[workshop_id |-> 1, camp_name |-> <<"a">>,
         location_lat |-> 0, location_lon |-> None]>> }

\* PATCH bodies for an equipment: a valid status and a start_date; an invalid status with a
\* valid name; a null status and a null start_date with a valid name; a key
\* outside the whitelist (the primary key); an empty body
EquipmentPatches ==
    { [null |-> {}, val |-> ("status" :> "Allocated" @@ "start_date" :> 2)],
      [null |-> {}, val |-> ("status" :> "Retired" @@ "equipment_name" :> <<"c">>)],
      [null |-> {"status", "start_date"}, val |-> ("equipment_name" :> <<"c">>)],
      [null |-> {}, val |-> ("equipment_id" :> MaxEq + 1)],
      [null |-> {}, val |-> <<>>] }

\* PATCH bodies for a workshop: a null latitude with a new name and a
\* primary key; a longitude
WorkshopPatches ==
    { [null |-> {"location_lat"},
       val  |-> ("camp_name" :> <<"c">> @@ "workshop_id" :> 2)],
      [null |-> {}, val |-> ("location_lon" :> 9)] }

\* PATCH bodies for a workorder: a null start date with another equipment
\* and a primary key; an end date
WorkorderPatches ==
    { [null |-> {"maintenance_start_date"},
       val  |-> ("equipment_id" :> 2 @@ "workorder_number" :> MaxWo + 1)],
      [null |-> {}, val |-> ("maintenance_end_date" :> 4)] }

\* POST bodies for an equipment: status absent or empty (""), valid, invalid
CreatePayloads ==
    { [equipment_name |-> <<" ", "c">>, camp_name |-> <<"a">>, status |-> st,
       start_date |-> None, end_date |-> None] :
      st \in {"", "Allocated", "Retired"} }

\* rows of an uploaded file: an invalid status, a row without status, a
\* blank name, an equipment_id that is not a number
UploadPool ==
    { [equipment_id |-> 1, equipment_name |-> <<"c", " ">>, camp_name |-> <<"a">>,
       has_status |-> TRUE, status |-> "Retired"],
      [equipment_id |-> 2, equipment_name |-> <<"c", " ">>, camp_name |-> <<"a">>,
       has_status |-> TRUE, status |-> "Retired"],
      [equipment_id |-> 2, equipment_name |-> <<"c">>, camp_name |-> <<"a">>,
       has_status |-> FALSE, status |-> ""],
      [equipment_id |-> 1, equipment_name |-> <<" ">>, camp_name |-> <<"a">>,
       has_status |-> FALSE, status |-> ""],
      [equipment_id |-> None, equipment_name |-> <<"c">>, camp_name |-> <<"a">>,
       has_status |-> FALSE, status |-> ""] }

\* the uploaded files: 1 to MaxRows rows
UploadFiles == UNION {[1..n -> UploadPool] : n \in 1..MaxRows}

\* the workorders table at the start: workorders of equipment 1, at
\* workshop 1 or at none
StoreWorkorderTables(n) ==
    { [i \in 1..n |-> [workorder_number      |-> i,
                       equipment_id          |-> 1,
                       workorder_description |-> None,
                       workshop_id           |-> f[i],
                       maintenance_start_date |-> 2,
                       maintenance_end_date   |-> 3]] :
      f \in [1..n -> {None, 1}] }

InitStore ==
    /\ workshops \in StoreWorkshopTables
    /\ equipment \in UNION {StoreEquipmentTables(n) : n \in 0..MaxEq}
    /\ workorders \in UNION {StoreWorkorderTables(n) : n \in 0..MaxWo}
    /\ result = NoCall
    /\ reply = NoCall
    /\ stores = NoStores
    /\ locals = NoCall
    /\ calls = NoCalls
    /\ avail = NoCall
    /\ hav = NoCall

GetEquipment(id) ==
    /\ reply = NoCall
    /\ LET r == get_equipment(equipment, id)
       IN  /\ reply' = [status |-> r.status, op |-> "get_equipment", id |-> id, res |-> r]
           /\ equipment' = r.table
    /\ UNCHANGED <<workshops, workorders, result, locals, calls, avail, hav, stores>>

\* the database gives the new row the next rowid, or the flush fails
CreateEquipment(payload) ==
    /\ reply = NoCall
    /\ \E generated \in {0, IF equipment = <<>> THEN 1
                            ELSE equipment[Len(equipment)].equipment_id + 1} :
          /\ generated <= MaxEq
          /\ LET r == create_equipment(equipment, payload, generated)
             IN  /\ reply' = [status |-> r.status, op |-> "create_equipment",
                              payload |-> payload, res |-> r]
                 /\ equipment' = r.table
    /\ UNCHANGED <<workshops, workorders, result, locals, calls, avail, hav, stores>>

UpdateEquipment(id, data) ==
    /\ reply = NoCall
    /\ LET r == update_equipment(equipment, id, data)
       IN  /\ reply' = [status |-> r.status, op |-> "update_equipment", id |-> id,
                        data |-> data, res |-> r]
           /\ equipment' = r.table
    /\ UNCHANGED <<workshops, workorders, result, locals, calls, avail, hav, stores>>

DeleteEquipment(id) ==
    /\ reply = NoCall
    /\ LET r == delete_equipment(equipment, workorders, id)
       IN  /\ reply' = [status |-> r.status, op |-> "delete_equipment", id |-> id, res |-> r]
           /\ equipment' = r.table
    /\ UNCHANGED <<workshops, workorders, result, locals, calls, avail, hav, stores>>

UploadEquipment(rows) ==
    /\ reply = NoCall
    /\ LET r == upload_equipment(equipment, rows)
       IN  /\ reply' = [status |-> r.status, op |-> "upload_equipment", rows |-> rows, res |-> r]
           /\ equipment' = r.table
    /\ UNCHANGED <<workshops, workorders, result, locals, calls, avail, hav, stores>>

GetWorkshop(id) ==
    /\ reply = NoCall
    /\ LET r == get_workshop(workshops, id)
       IN  /\ reply' = [status |-> r.status, op |-> "get_workshop", id |-> id, res |-> r]
           /\ workshops' = r.table
    /\ UNCHANGED <<equipment, workorders, result, locals, calls, avail, hav, stores>>

UpdateWorkshop(id, data) ==
    /\ reply = NoCall
    /\ LET r == update_workshop(workshops, id, data)
       IN  /\ reply' = [status |-> r.status, op |-> "update_workshop", id |-> id,
                        data |-> data, res |-> r]
           /\ workshops' = r.table
    /\ UNCHANGED <<equipment, workorders, result, locals, calls, avail, hav, stores>>

DeleteWorkshop(id) ==
    /\ reply = NoCall
    /\ LET r == delete_workshop(workshops, workorders, id)
       IN  /\ reply' = [status |-> r.status, op |-> "delete_workshop", id |-> id, res |-> r]
           /\ workshops' = r.table
           /\ workorders' = r.workorders
    /\ UNCHANGED <<equipment, result, locals, calls, avail, hav, stores>>

GetWorkorder(id) ==
    /\ reply = NoCall
    /\ LET r == get_workorder(workorders, id)
       IN  /\ reply' = [status |-> r.status, op |-> "get_workorder", id |-> id, res |-> r]
           /\ workorders' = r.table
    /\ UNCHANGED <<workshops, equipment, result, locals, calls, avail, hav, stores>>

UpdateWorkorder(id, data) ==
    /\ reply = NoCall
    /\ LET r == update_workorder(workorders, id, data)
       IN  /\ reply' = [status |-> r.status, op |-> "update_workorder", id |-> id,
                        data |-> data, res |-> r]
           /\ workorders' = r.table
    /\ UNCHANGED <<workshops, equipment, result, locals, calls, avail, hav, stores>>

DeleteWorkorder(id) ==
    /\ reply = NoCall
    /\ LET r == delete_workorder(workorders, id)
       IN  /\ reply' = [status |-> r.status, op |-> "delete_workorder", id |-> id, res |-> r]
           /\ workorders' = r.table
    /\ UNCHANGED <<workshops, equipment, result, locals, calls, avail, hav, stores>>

\* the client takes the response of the store operation
Acknowledge ==
    /\ reply # NoCall
    /\ reply' = NoCall
    /\ UNCHANGED <<workshops, equipment, workorders, result, locals, calls, avail, hav, stores>>

NextStore ==
    \/ \E id \in EquipmentIds : GetEquipment(id)
    \/ \E payload \in CreatePayloads : CreateEquipment(payload)
    \/ \E id \in EquipmentIds, data \in EquipmentPatches : UpdateEquipment(id, data)
    \/ \E id \in EquipmentIds : DeleteEquipment(id)
    \/ \E rows \in UploadFiles : UploadEquipment(rows)
    \/ \E id \in WorkshopIds : GetWorkshop(id)
    \/ \E id \in WorkshopIds, data \in WorkshopPatches : UpdateWorkshop(id, data)
    \/ \E id \in WorkshopIds : DeleteWorkshop(id)
    \/ \E id \in WorkorderIds : GetWorkorder(id)
    \/ \E id \in WorkorderIds, data \in WorkorderPatches : UpdateWorkorder(id, data)
    \/ \E id \in WorkorderIds : DeleteWorkorder(id)
    \/ Acknowledge

SpecStore == InitStore /\ [][NextStore]_vars

----------------------------------------------------------------------------
(* check_demand while other clients write: the call of one client, query  *)
(* by query, and the commits of equipment and workshop operations between *)
(* its queries.  Each query reads the store as the last commit left it.   *)

\* the store states seen so far by the calls in progress, with a new one
Observed(ws_table, eq_table) ==
    [c \in Clients |->
        IF calls[c].pc \in {"idle", "done"} THEN stores[c]
        ELSE stores[c] \cup {<<ws_table, eq_table>>}]

\* no call in progress has seen more than MaxWrites commits
MayCommit == \A c \in Clients : Cardinality(stores[c]) <= MaxWrites

\* PATCH bodies of the writers: the equipment moves to another camp, or is
\* allocated
WriterPatches ==
    { [null |-> {}, val |-> ("camp_name" :> <<"a">>)],
      [null |-> {}, val |-> ("camp_name" :> <<"A", "b">>)],
      [null |-> {}, val |-> ("status" :> "Allocated")] }

\* another client's PATCH /equipment/{id} commits
WriterUpdateEquipment(id, data) ==
    /\ MayCommit
    /\ LET r == update_equipment(equipment, id, data)
       IN  /\ r.status = 200
           /\ r.table # equipment
           /\ equipment' = r.table
           /\ stores' = Observed(workshops, r.table)
    /\ UNCHANGED <<workshops, workorders, result, locals, calls, avail, hav, reply>>

\* another client's DELETE /equipment/{id} commits
WriterDeleteEquipment(id) ==
    /\ MayCommit
    /\ LET r == delete_equipment(equipment, workorders, id)
       IN  /\ r.status = 200
           /\ equipment' = r.table
           /\ stores' = Observed(workshops, r.table)
    /\ UNCHANGED <<workshops, workorders, result, locals, calls, avail, hav, reply>>

\* another client's DELETE /workshops/{id} commits
WriterDeleteWorkshop(id) ==
    /\ MayCommit
    /\ LET r == delete_workshop(workshops, workorders, id)
       IN  /\ r.status = 200
           /\ workshops' = r.table
           /\ workorders' = r.workorders
           /\ stores' = Observed(r.table, equipment)
    /\ UNCHANGED <<equipment, result, locals, calls, avail, hav, reply>>

\* equipment "ab" ready to use in either camp
WriteEquipmentTables(n) ==
    { [i \in 1..n |-> [equipment_id   |-> i,
                       equipment_name |-> <<"a", "b">>,
                       camp_name      |-> f[i],
                       region         |-> None,
                       status         |-> "ReadyToUse",
                       next_maintenance_date |-> None,
                       start_date     |-> None,
                       end_date       |-> None]] :
      f \in [1..n -> CampNames] }

InitWrite ==
    /\ workshops \in UNION {ConcWorkshopTables(n) : n \in 0..MaxWs}
    /\ equipment \in UNION {WriteEquipmentTables(n) : n \in 0..MaxEq}
    /\ workorders = <<>>
    /\ result = NoCall
    /\ reply = NoCall
    /\ stores = NoStores
    /\ locals = NoCall
    /\ calls = NoCalls
    /\ avail = NoCall
    /\ hav = NoCall

\* the call of the first client, and the commits of the writers
NextWrite ==
    \/ \E req \in ConcRequests : StartCall(1, req)
    \/ QueryHomeWs(1)
    \/ QueryHomeEquipment(1)
    \/ QueryAllWorkshops(1)
    \/ LoopStep(1)
    \/ SortAndReturn(1)
    \/ Respond(1)
    \/ \E id \in 1..MaxEq, data \in WriterPatches : WriterUpdateEquipment(id, data)
    \/ \E id \in 1..MaxEq : WriterDeleteEquipment(id)
    \/ \E id \in 1..MaxWs : WriterDeleteWorkshop(id)

SpecWrite == InitWrite /\ [][NextWrite]_vars

----------------------------------------------------------------------------
(* haversine_km on its own: every argument present or absent *)

\* a coordinate argument: absent, or 0, 3 or 9 milli-degrees
HavValues == {None, 0, 3, 9}

InitHav ==
    /\ workshops = <<>>
    /\ equipment = <<>>
    /\ workorders = <<>>
    /\ result = NoCall
    /\ reply = NoCall
    /\ stores = NoStores
    /\ locals = NoCall
    /\ calls = NoCalls
    /\ avail = NoCall
    /\ hav \in [status : {1},
                lat1 : HavValues, lon1 : HavValues,
                lat2 : HavValues, lon2 : HavValues,
                done : {FALSE}, ret : {0}]

EvalHaversine ==
    /\ ~hav.done
    /\ hav' = [hav EXCEPT !.done = TRUE,
                          !.ret = haversine_km(hav.lat1, hav.lon1, hav.lat2, hav.lon2)]
    /\ UNCHANGED <<workshops, equipment, workorders, result, locals, calls, avail, reply, stores>>

NextHav == EvalHaversine

SpecHav == InitHav /\ [][NextHav]_vars

----------------------------------------------------------------------------
(* Properties of is_available, under SpecAvail *)

\* C1: a record whose status is not ReadyToUse (UnderMaintenance, Allocated
\* or anything else) is unavailable for every requested window, whatever its
\* own start_date and end_date are.
C1_NotReadyNeverAvailable ==
    (avail.status = 1 /\ avail.done /\ avail.e.status # "ReadyToUse")
        => avail.ret = FALSE

\* a record with an undocumented status and an own window that lies before
\* the requested one has been evaluated
C1_Witness ==
    /\ avail.status = 1 /\ avail.done
    /\ avail.e.status = "Retired"
    /\ avail.e.start_date # None /\ avail.e.end_date # None
    /\ avail.e.start_date <= avail.e.end_date
    /\ avail.e.end_date < avail.start_date
    /\ avail.start_date <= avail.end_date
    /\ avail.ret = FALSE

\* C2: for a ReadyToUse record with both own dates, own window [s, t], and a
\* requested window [a, b], is_available is false iff s <= b and a <= t;
\* windows that share one endpoint day overlap.
C2_ClosedIntervalOverlap ==
    (/\ avail.status = 1 /\ avail.done
     /\ avail.e.status = "ReadyToUse"
     /\ avail.e.start_date # None /\ avail.e.end_date # None)
        => (avail.ret = FALSE <=>
                (/\ avail.e.start_date <= avail.end_date
                 /\ avail.start_date <= avail.e.end_date))

\* the requested window starts on the day the own window ends
C2_Witness ==
    /\ avail.status = 1 /\ avail.done
    /\ avail.e.status = "ReadyToUse"
    /\ avail.e.start_date # None /\ avail.e.end_date # None
    /\ avail.e.start_date < avail.e.end_date
    /\ avail.e.end_date = avail.start_date
    /\ avail.start_date < avail.end_date
    /\ avail.ret = FALSE

\* C3: a ReadyToUse record that lacks start_date, end_date or both is
\* available for every requested window; one date alone counts as none.
C3_MissingDatesAvailable ==
    (/\ avail.status = 1 /\ avail.done
     /\ avail.e.status = "ReadyToUse"
     /\ (avail.e.start_date = None \/ avail.e.end_date = None))
        => avail.ret = TRUE

\* only end_date is set, on a day inside the requested window
C3_Witness ==
    /\ avail.status = 1 /\ avail.done
    /\ avail.e.status = "ReadyToUse"
    /\ avail.e.start_date = None /\ avail.e.end_date # None
    /\ avail.start_date <= avail.e.end_date /\ avail.e.end_date <= avail.end_date
    /\ avail.ret = TRUE

----------------------------------------------------------------------------
(* Properties of check_demand, under Spec *)

\* the rows of a table, as a set
Rows(table) == {table[i] : i \in 1..Len(table)}

\* equal as whole strings, case-insensitively
EqualFold(s, t) == Lower(s) = Lower(t)

\* t occurs in s as a substring, case-insensitively
ContainsFold(s, t) ==
    \E i \in 1..(Len(s) + 1) : \E j \in (i - 1)..Len(s) :
        SubSeq(Lower(s), i, j) = Lower(t)

\* p holds no LIKE wildcard
NoWildcard(p) == \A i \in 1..Len(p) : p[i] \notin {"%", "_"}

\* a call has returned or raised
Called == result.status # 0

\* a call has returned its result dict
Returned == result.status = 200

\* C4: check_demand fails with 404 exactly when no Workshop has a camp_name
\* equal to the requested one case-insensitively (whole string, not part).
C4_NotFoundIffNoEqualCamp ==
    Called =>
        (result.status = 404 <=>
            ~\E w \in Rows(workshops) : EqualFold(w.camp_name, locals.req.camp_name))

\* C5: whenever a Workshop has the requested camp_name, check_demand returns
\* the complete result: the echoed request, available, meets_requirement,
\* the home workshop's coordinates and the alternatives list, whatever the
\* store and the inputs are, and whether or not the requirement is met.
C5_MatchedCampAlwaysAnswered ==
    (Called /\ \E w \in Rows(workshops) : EqualFold(w.camp_name, locals.req.camp_name))
        => /\ result.status = 200
           /\ DOMAIN result =
                {"status", "camp_name", "requested", "availability", "ui", "alternatives"}
           /\ result.camp_name = locals.req.camp_name
           /\ result.requested = [equipment_name |-> locals.req.equipment_name,
                                  start_date     |-> locals.req.start_date,
                                  end_date       |-> locals.req.end_date,
                                  quantity       |-> locals.req.quantity]
           /\ result.availability.available \in Nat
           /\ result.availability.meets_requirement \in BOOLEAN
           /\ \E w \in Rows(workshops) :
                /\ w = locals.home_ws
                /\ result.ui.center = [lat |-> w.location_lat, lon |-> w.location_lon]
           /\ result.alternatives \in Seq(Rows(result.alternatives))

\* a request of quantity 0 with start_date > end_date has been answered,
\* met, for a home workshop that has a longitude but no latitude
C5_Witness ==
    /\ Returned
    /\ \E w \in Rows(workshops) : EqualFold(w.camp_name, locals.req.camp_name)
    /\ locals.req.quantity = 0
    /\ locals.req.start_date > locals.req.end_date
    /\ result.availability.meets_requirement
    /\ locals.home_ws.location_lat = None
    /\ result.ui.center = [lat |-> None, lon |-> locals.home_ws.location_lon]

\* the availability predicate as sections 4.2 and 8 state it
AvailableFor(e, a, b) ==
    /\ e.status = "ReadyToUse"
    /\ \/ e.start_date = None
       \/ e.end_date = None
       \/ ~(e.start_date <= b /\ a <= e.end_date)

\* C6: available is the number of selected home-camp records that are
\* available for the requested window, and meets_requirement is true iff
\* available >= quantity.
C6_AvailableCountAndMeets ==
    Returned =>
        /\ result.availability.available =
             Cardinality({i \in 1..Len(locals.q_home) :
                 AvailableFor(locals.q_home[i],
                              locals.req.start_date, locals.req.end_date)})
        /\ result.availability.meets_requirement <=>
             (result.availability.available >= locals.req.quantity)

\* two records are selected, one of them is blocked by its own window, and
\* the one that is left is exactly the quantity asked for
C6_Witness ==
    /\ Returned
    /\ Len(locals.q_home) = 2
    /\ result.availability.available = 1
    /\ locals.req.quantity = 1
    /\ result.availability.meets_requirement

C8_AlternativesOnlyWhenUnmet ==
    Returned =>
        /\ result.ui.show_map = ~result.availability.meets_requirement
        /\ result.availability.meets_requirement => result.alternatives = <<>>

\* the demand is met while another camp's workshop lies within the radius
C8_Witness ==
    /\ Returned
    /\ result.availability.meets_requirement
    /\ locals.req.quantity > 0
    /\ \E w \in Rows(workshops) : IsCandidate(w, locals.home_ws, locals.req)
    /\ result.alternatives = <<>>
    /\ result.ui.show_map = FALSE

\* C9: the workshop resolved as the home camp never appears in the
\* alternatives, and no alternative has a camp_name equal case-insensitively
\* to the requested camp_name, for every camp_name that resolves.
C9_HomeNeverAlternative ==
    Returned =>
        \A k \in 1..Len(result.alternatives) :
            /\ result.alternatives[k].workshop_id # locals.home_ws.workshop_id
            /\ ~EqualFold(result.alternatives[k].camp_name, locals.req.camp_name)

\* the distance calculator applied to the home workshop and another one
DistanceFromHome(w) ==
    haversine_km(locals.home_ws.location_lat, locals.home_ws.location_lon,
                 w.location_lat, w.location_lon)

\* C10: every alternative belongs to a workshop whose distance to the home
\* workshop is known and at most radius_km; a workshop without latitude or
\* longitude, or farther away, never appears; one exactly at radius_km does.
C10_AlternativesWithinRadius ==
    Returned =>
        /\ \A k \in 1..Len(result.alternatives) :
              \E w \in Rows(workshops) :
                 /\ w.workshop_id = result.alternatives[k].workshop_id
                 /\ w.location_lat # None /\ w.location_lon # None
                 /\ locals.home_ws.location_lat # None
                 /\ locals.home_ws.location_lon # None
                 /\ DistanceFromHome(w) <= locals.req.radius_km
        /\ ~result.availability.meets_requirement =>
              \A w \in Rows(workshops) :
                 (/\ ~EqualFold(w.camp_name, locals.req.camp_name)
                  /\ DistanceFromHome(w) = locals.req.radius_km)
                     => \E k \in 1..Len(result.alternatives) :
                            result.alternatives[k].workshop_id = w.workshop_id

\* the one alternative is a workshop exactly radius_km away from home
C10_Witness ==
    /\ Returned
    /\ Len(result.alternatives) = 1
    /\ \E w \in Rows(workshops) :
          /\ w.workshop_id = result.alternatives[1].workshop_id
          /\ w.workshop_id # locals.home_ws.workshop_id
          /\ DistanceFromHome(w) = locals.req.radius_km

\* the positions in the equipment table of the records that match an
\* alternative's camp and the requested type, as whole names compared
\* case-insensitively
Matching(a) ==
    {i \in 1..Len(equipment) :
        /\ EqualFold(equipment[i].camp_name, a.camp_name)
        /\ EqualFold(equipment[i].equipment_name, locals.req.equipment_name)}

\* the alternative's camp name and the requested type hold no LIKE wildcard
PlainNames(a) == NoWildcard(a.camp_name) /\ NoWildcard(locals.req.equipment_name)

\* C12: in each alternative, ready_to_use is the number of the camp's
\* matching records that are ReadyToUse and available for the requested
\* window, and under_maintenance is the number of matching records whose
\* status is UnderMaintenance, whatever their own dates and the window are.
C12_AlternativeCounts ==
    Returned =>
        \A k \in 1..Len(result.alternatives) :
            LET a == result.alternatives[k]
            IN  PlainNames(a) =>
                  /\ a.counts.ready_to_use =
                       Cardinality({i \in Matching(a) :
                           AvailableFor(equipment[i], locals.req.start_date,
                                        locals.req.end_date)})
                  /\ a.counts.under_maintenance =
                       Cardinality({i \in Matching(a) :
                           equipment[i].status = "UnderMaintenance"})

\* an alternative camp holds a record under maintenance whose own window
\* overlaps the requested one, and a ReadyToUse record that is blocked: the
\* first is counted, the second is not
C12_Witness ==
    /\ Returned
    /\ \E k \in 1..Len(result.alternatives) :
          LET a == result.alternatives[k]
          IN  /\ PlainNames(a)
              /\ a.counts.under_maintenance = 1
              /\ a.counts.ready_to_use = 0
              /\ \E i \in Matching(a) :
                    /\ equipment[i].status = "UnderMaintenance"
                    /\ equipment[i].start_date # None /\ equipment[i].end_date # None
                    /\ equipment[i].start_date <= locals.req.end_date
                    /\ locals.req.start_date <= equipment[i].end_date
              /\ \E i \in Matching(a) : equipment[i].status = "ReadyToUse"

\* the matching records that belong to neither bucket
Neither(a) ==
    {i \in Matching(a) :
        \/ equipment[i].status = "Allocated"
        \/ /\ equipment[i].status = "ReadyToUse"
           /\ ~AvailableFor(equipment[i], locals.req.start_date, locals.req.end_date)}

\* C13: in each alternative, Allocated records and ReadyToUse records that
\* are blocked by their dates are counted in neither bucket: the two counts
\* together never exceed the number of records matching the camp and type,
\* less those records, and no record is counted twice.
C13_NeitherBucket ==
    Returned =>
        \A k \in 1..Len(result.alternatives) :
            LET a == result.alternatives[k]
            IN  PlainNames(a) =>
                  /\ a.counts.ready_to_use + a.counts.under_maintenance
                        <= Cardinality(Matching(a))
                  /\ a.counts.ready_to_use + a.counts.under_maintenance
                        + Cardinality(Neither(a)) <= Cardinality(Matching(a))

\* an alternative camp's two matching records are one Allocated and one
\* ReadyToUse but blocked, and both counts are 0
C13_Witness ==
    /\ Returned
    /\ \E k \in 1..Len(result.alternatives) :
          LET a == result.alternatives[k]
          IN  /\ PlainNames(a)
              /\ Cardinality(Matching(a)) = 2
              /\ \E i \in Neither(a) : equipment[i].status = "Allocated"
              /\ \E i \in Neither(a) : equipment[i].status = "ReadyToUse"
              /\ a.counts.ready_to_use = 0
              /\ a.counts.under_maintenance = 0

----------------------------------------------------------------------------
(* Properties of the alternatives list, under SpecRank *)

\* the workshops of other camps whose distance to the home workshop is
\* known and at most radius_km
Candidates ==
    {w \in Rows(workshops) :
        /\ ~EqualFold(w.camp_name, locals.req.camp_name)
        /\ DistanceFromHome(w) # None
        /\ DistanceFromHome(w) <= locals.req.radius_km}

\* the positions in the alternatives list of the entries of workshop w
EntriesOf(w) ==
    {k \in 1..Len(result.alternatives) :
        /\ result.alternatives[k].workshop_id = w.workshop_id
        /\ result.alternatives[k].camp_name = w.camp_name
        /\ result.alternatives[k].location =
              [lat |-> w.location_lat, lon |-> w.location_lon]}

\* C11: when the home demand is unmet, the alternatives list holds exactly
\* one entry for each Workshop of another camp whose distance to home is
\* known and within radius_km, whether or not the camp has matching
\* equipment, and no other entry.
C11_OneEntryPerCandidate ==
    (Returned /\ ~result.availability.meets_requirement) =>
        /\ \A w \in Candidates : Cardinality(EntriesOf(w)) = 1
        /\ Len(result.alternatives) = Cardinality(Candidates)

\* two workshops are within the radius: both are listed, and one of them
\* belongs to a camp without any equipment of the requested type
C11_Witness ==
    /\ Returned /\ ~result.availability.meets_requirement
    /\ Cardinality(Candidates) = 2
    /\ Len(result.alternatives) = 2
    /\ \E k \in 1..2 :
          /\ Matching(result.alternatives[k]) = {}
          /\ result.alternatives[k].counts =
                [ready_to_use |-> 0, under_maintenance |-> 0]
    /\ \E k \in 1..2 : Matching(result.alternatives[k]) # {}

\* the distance calculator's value for the workshop of the k-th alternative
AltDistance(k) == DistanceFromHome(workshops[result.alternatives[k].workshop_id])

\* C14: the alternatives are sorted ascending by the distance the distance
\* calculator gives for each camp, and among camps at equal distance the
\* larger ready_to_use count comes first: a strictly nearer camp never
\* follows a strictly farther one.
C14_SortedByDistance ==
    Returned =>
        \A i, j \in 1..Len(result.alternatives) :
            i < j =>
                /\ AltDistance(i) <= AltDistance(j)
                /\ AltDistance(i) = AltDistance(j) =>
                      result.alternatives[i].counts.ready_to_use
                          >= result.alternatives[j].counts.ready_to_use

\* C15: entries that tie on distance and on ready_to_use keep the order in
\* which their workshops were enumerated from the store.
C15_TiesKeepStoreOrder ==
    Returned =>
        \A i, j \in 1..Len(result.alternatives) :
            (/\ i < j
             /\ result.alternatives[i].distance_km = result.alternatives[j].distance_km
             /\ result.alternatives[i].counts.ready_to_use
                  = result.alternatives[j].counts.ready_to_use)
                => result.alternatives[i].workshop_id
                      < result.alternatives[j].workshop_id

\* two workshops of different camps at the same place, each with one ready
\* unit, are listed in table order, the later row's camp second
C15_Witness ==
    /\ Returned
    /\ Len(result.alternatives) = 2
    /\ result.alternatives[1].camp_name # result.alternatives[2].camp_name
    /\ AltDistance(1) = AltDistance(2)
    /\ result.alternatives[1].counts.ready_to_use = 1
    /\ result.alternatives[2].counts.ready_to_use = 1
    /\ result.alternatives[1].workshop_id < result.alternatives[2].workshop_id

----------------------------------------------------------------------------
(* Properties of check_demand calls that follow or overlap one another,   *)
(* under SpecConc, and of their effect on the store, under SpecRank       *)

\* C16: two calls with the same inputs on an unchanged store, the second
\* begun after the first has returned, give the same result: the same
\* availability and the same alternatives in the same order, or the same
\* 404.
C16_SameInputsSameResult ==
    \A c, d \in Clients :
        (/\ calls[c].pc = "done" /\ calls[d].pc = "done"
         /\ c \in calls[d].after
         /\ calls[c].req = calls[d].req)
            => calls[d].result = calls[c].result

\* a second call has returned alternatives for the request of a first call
\* that had returned before the second began
C16_Witness ==
    \E c, d \in Clients :
        /\ c # d
        /\ calls[c].pc = "done" /\ calls[d].pc = "done"
        /\ c \in calls[d].after
        /\ calls[c].req = calls[d].req
        /\ calls[d].result.status = 200
        /\ calls[d].result.alternatives # <<>>
        /\ calls[d].result = calls[c].result

\* a first call has raised 404 and a second call with its request as well
C16_WitnessNotFound ==
    \E c, d \in Clients :
        /\ c # d
        /\ calls[c].pc = "done" /\ calls[d].pc = "done"
        /\ c \in calls[d].after
        /\ calls[c].req = calls[d].req
        /\ calls[d].result.status = 404
        /\ calls[c].result.status = 404

\* C18: check_demand calls that run at the same time on the same unchanged
\* store do not interfere: whatever the order of their queries, each call
\* returns the result that the call alone gives on that store.
C18_ConcurrentCallsIndependent ==
    \A c \in Clients :
        calls[c].pc = "done"
            => calls[c].result = Response(workshops, equipment, calls[c].req)

\* two calls with different requests have overlapped (neither had returned
\* when the other began) and both have returned alternatives
C18_Witness ==
    \E c, d \in Clients :
        /\ c # d
        /\ calls[c].pc = "done" /\ calls[d].pc = "done"
        /\ c \notin calls[d].after /\ d \notin calls[c].after
        /\ calls[c].req # calls[d].req
        /\ calls[c].result.status = 200 /\ calls[d].result.status = 200
        /\ calls[c].result.alternatives # <<>>
        /\ calls[d].result.alternatives # <<>>

\* C17: check_demand is read-only: over any call, one that returns and one
\* that raises 404, the Equipment, Workshop and Workorder tables stay as
\* they are: no record is changed, added or removed.
C17_ReadOnly ==
    [][(result = NoCall /\ result' # NoCall) =>
          /\ equipment' = equipment
          /\ workshops' = workshops
          /\ workorders' = workorders]_vars

\* a call has found available equipment at the home camp, on a store whose
\* three tables hold records
C17_Witness ==
    /\ Returned
    /\ result.availability.available > 0
    /\ workshops # <<>> /\ equipment # <<>> /\ workorders # <<>>

----------------------------------------------------------------------------
(* Properties of haversine_km, under SpecHav *)

\* the four arguments of the evaluation
HavArgs == {hav.lat1, hav.lon1, hav.lat2, hav.lon2}

\* C19: haversine_km returns None exactly when at least one of its four
\* coordinate arguments is absent; with the four present, a coordinate of 0
\* included, it returns a number.
C19_NoneIffCoordinateAbsent ==
    (hav.status = 1 /\ hav.done) =>
        /\ hav.ret = None <=> None \in HavArgs
        /\ None \notin HavArgs => hav.ret \in Nat

\* only the second longitude is absent, the first point is (0, 0)
C19_Witness ==
    /\ hav.status = 1 /\ hav.done
    /\ hav.lat1 = 0 /\ hav.lon1 = 0
    /\ hav.lat2 # None /\ hav.lon2 = None
    /\ hav.ret = None

\* C20: with every coordinate present, the distance from a point to itself
\* is 0, and the distance from p1 to p2 is the distance from p2 to p1.
C20_ZeroAndSymmetric ==
    (hav.status = 1 /\ hav.done /\ None \notin HavArgs) =>
        /\ (hav.lat1 = hav.lat2 /\ hav.lon1 = hav.lon2) => hav.ret = 0
        /\ hav.ret = haversine_km(hav.lat2, hav.lon2, hav.lat1, hav.lon1)

\* two points that differ in latitude and in longitude, away from (0, 0):
\* the distance is positive and the same in both directions
C20_Witness ==
    /\ hav.status = 1 /\ hav.done /\ None \notin HavArgs
    /\ hav.lat1 > hav.lat2 /\ hav.lat2 > 0
    /\ hav.lon1 < hav.lon2 /\ hav.lon1 > 0
    /\ hav.ret > 0
    /\ hav.ret = haversine_km(hav.lat2, hav.lon2, hav.lat1, hav.lon1)

----------------------------------------------------------------------------
(* Further properties of check_demand *)

\* C21: when the home workshop has no latitude or no longitude and the home
\* demand is unmet, check_demand returns (it does not raise): every
\* workshop is left out because its distance is unknown, meets_requirement
\* is false and the alternatives list is empty.
C21_HomeWithoutCoordinates ==
    (/\ Called /\ locals.found
     /\ (locals.home_ws.location_lat = None \/ locals.home_ws.location_lon = None)
     /\ ~locals.meets)
        => /\ result.status = 200
           /\ result.availability.meets_requirement = FALSE
           /\ result.alternatives = <<>>
           /\ \A w \in Rows(workshops) : DistanceFromHome(w) = None

\* the home workshop has no latitude, another camp's workshop has both
\* coordinates, and the unmet call has returned without alternatives
C21_Witness ==
    /\ Returned
    /\ locals.home_ws.location_lat = None
    /\ ~result.availability.meets_requirement
    /\ \E w \in Rows(workshops) :
          /\ ~EqualFold(w.camp_name, locals.req.camp_name)
          /\ w.location_lat # None /\ w.location_lon # None
    /\ result.alternatives = <<>>

\* C27: in every alternatives list the emitted distance_km values are
\* non-decreasing from the first entry to the last, and of two consecutive
\* entries with the same distance_km the first has at least the
\* ready_to_use count of the second.
C27_EmittedOrder ==
    Returned =>
        \A k \in 1..(Len(result.alternatives) - 1) :
            /\ result.alternatives[k].distance_km <= result.alternatives[k + 1].distance_km
            /\ result.alternatives[k].distance_km = result.alternatives[k + 1].distance_km
                  => result.alternatives[k].counts.ready_to_use
                        >= result.alternatives[k + 1].counts.ready_to_use

\* two entries with the same distance_km: the camp with a ready unit comes
\* first although its workshop is the later row of the table
C27_Witness ==
    /\ Returned
    /\ Len(result.alternatives) = 2
    /\ result.alternatives[1].distance_km = result.alternatives[2].distance_km
    /\ result.alternatives[1].counts.ready_to_use = 1
    /\ result.alternatives[2].counts.ready_to_use = 0
    /\ result.alternatives[1].workshop_id > result.alternatives[2].workshop_id

\* the response of check_demand on the same store for the camp of
\* alternative a, with the same equipment type, window, quantity and radius
HomeResponseFor(a) ==
    Response(workshops, equipment, [locals.req EXCEPT !.camp_name = a.camp_name])

\* C28: for every alternative of camp C, ready_to_use is the available
\* count that check_demand reports on the same store for camp_name = C with
\* the same equipment type and window.
C28_ReadyEqualsHomeAvailable ==
    Returned =>
        \A k \in 1..Len(result.alternatives) :
            /\ HomeResponseFor(result.alternatives[k]).status = 200
            /\ result.alternatives[k].counts.ready_to_use
                  = HomeResponseFor(result.alternatives[k]).availability.available

\* an alternative camp holds two matching ReadyToUse records, one of them
\* blocked by its own window: ready_to_use and the camp's own available
\* count are both 1
C28_Witness ==
    /\ Returned
    /\ \E k \in 1..Len(result.alternatives) :
          LET a == result.alternatives[k]
          IN  /\ ~EqualFold(a.camp_name, locals.req.camp_name)
              /\ Cardinality(Matching(a)) = 2
              /\ \A i \in Matching(a) : equipment[i].status = "ReadyToUse"
              /\ a.counts.ready_to_use = 1
              /\ HomeResponseFor(a).availability.available = 1

----------------------------------------------------------------------------
(* The store operations *)

\* a store operation of this name has answered and the answer is not taken yet
Replied(op) == reply # NoCall /\ reply.op = op

\* this step is the handling of one request by the operation of this name
Handles(op) == reply = NoCall /\ reply' # NoCall /\ reply'.op = op

\* the body carries a status that is none of the three values
InvalidStatus(data) ==
    "status" \in DOMAIN data.val /\ data.val["status"] \notin ALLOWED_STATUS

\* C22: a PATCH /equipment/{id} of a stored record whose body carries a
\* status outside the three values is answered with 400 and leaves every
\* field of every stored record as it was, whatever valid values the body
\* carries for other fields.
C22_InvalidStatusAssignsNothing ==
    [][(/\ Handles("update_equipment")
        /\ InvalidStatus(reply'.data)
        /\ Position(equipment, "equipment_id", reply'.id) # 0)
       => (reply'.status = 400 /\ equipment' = equipment)]_vars

\* answered 400 for a body with an invalid status and a valid new name: the
\* stored record still has its old name
C22_Witness ==
    /\ Replied("update_equipment")
    /\ reply.status = 400
    /\ InvalidStatus(reply.data)
    /\ "equipment_name" \in DOMAIN reply.data.val
    /\ \E e \in Rows(equipment) :
          /\ e.equipment_id = reply.id
          /\ e.equipment_name # reply.data.val["equipment_name"]

\* the stored record with this equipment_id has this status
StoredStatus(id, st) ==
    \E e \in Rows(equipment) : e.equipment_id = id /\ e.status = st

\* the row of the file is stored by the upload and no later row of the file
\* gives the same record a status
StoredWithoutStatus(rows, errors, i) ==
    /\ ~rows[i].has_status
    /\ \A k \in 1..Len(errors) : errors[k] # i + 1
    /\ \A j \in (i + 1)..Len(rows) :
          rows[j].equipment_id = rows[i].equipment_id
             => ~rows[j].has_status \/ rows[j].status \notin ALLOWED_STATUS

\* C23: after any sequence of create_equipment, update_equipment,
\* delete_equipment and upload_equipment from a store with valid statuses,
\* every stored Equipment has one of the three statuses, and a record
\* created without a status (by POST, or by a row of an uploaded file) is
\* stored with ReadyToUse.
C23_StatusesStayValid ==
    /\ \A e \in Rows(equipment) : e.status \in ALLOWED_STATUS
    /\ (Replied("create_equipment") /\ reply.status = 200 /\ reply.payload.status = "")
          => StoredStatus(reply.res.body.equipment_id, "ReadyToUse")
    /\ (Replied("upload_equipment") /\ reply.status = 200)
          => \A i \in 1..Len(reply.rows) :
                StoredWithoutStatus(reply.rows, reply.res.errors, i)
                   => StoredStatus(reply.rows[i].equipment_id, "ReadyToUse")

\* an uploaded file has inserted a record from a row without status, next to
\* a row with an invalid status that is reported as an error
C23_Witness ==
    /\ Replied("upload_equipment")
    /\ reply.status = 200
    /\ reply.res.inserted = 1
    /\ reply.res.errors # <<>>
    /\ \E i \in 1..Len(reply.rows) :
          /\ StoredWithoutStatus(reply.rows, reply.res.errors, i)
          /\ StoredStatus(reply.rows[i].equipment_id, "ReadyToUse")
    /\ \E i \in 1..Len(reply.rows) :
          reply.rows[i].has_status /\ reply.rows[i].status \notin ALLOWED_STATUS

\* what a partial update with this body makes of a stored record: the keys
\* of the whitelist that the body carries with a value hold that value, and
\* every other field, the primary key and the keys the body carries as null
\* among them, holds what it held
PartiallyUpdated(old, new, data, whitelist) ==
    /\ DOMAIN new = DOMAIN old
    /\ \A k \in DOMAIN old :
          IF k \in whitelist /\ k \in DOMAIN data.val
          THEN new[k] = data.val[k]
          ELSE new[k] = old[k]

\* the update of the record id of the table, and of nothing else
UpdatesOnly(old_table, new_table, pk, id, data, whitelist) ==
    /\ Len(new_table) = Len(old_table)
    /\ \A i \in 1..Len(old_table) :
          IF old_table[i][pk] = id
          THEN PartiallyUpdated(old_table[i], new_table[i], data, whitelist)
          ELSE new_table[i] = old_table[i]

\* C24: a partial update (update_equipment, crud.update_workshop,
\* crud.update_workorder) that succeeds changes only the fields of the
\* whitelist whose key the body carries with a non-null value; a field whose
\* key is absent or null, a key outside the whitelist and the primary key
\* keep their value, so no field is reset to null; the other records and
\* the other tables are untouched.
C24_PartialUpdate ==
    [][/\ (Handles("update_equipment") /\ reply'.status = 200)
          => /\ UpdatesOnly(equipment, equipment', "equipment_id",
                            reply'.id, reply'.data, EquipmentKeys)
             /\ UNCHANGED <<workshops, workorders>>
       /\ (Handles("update_workshop") /\ reply'.status = 200)
          => /\ UpdatesOnly(workshops, workshops', "workshop_id",
                            reply'.id, reply'.data, WorkshopKeys)
             /\ UNCHANGED <<equipment, workorders>>
       /\ (Handles("update_workorder") /\ reply'.status = 200)
          => /\ UpdatesOnly(workorders, workorders', "workorder_number",
                            reply'.id, reply'.data, WorkorderKeys)
             /\ UNCHANGED <<workshops, equipment>>]_vars

\* a successful PATCH whose body carries a new name and null for status and
\* start_date: the stored record has the new name, and its start_date and
\* status are not null
C24_Witness ==
    /\ Replied("update_equipment")
    /\ reply.status = 200
    /\ reply.data.null = {"status", "start_date"}
    /\ \E e \in Rows(equipment) :
          /\ e.equipment_id = reply.id
          /\ e.equipment_name = reply.data.val["equipment_name"]
          /\ e.start_date = 2
          /\ e.status = "Allocated"

\* the row of the file is reported in errors, and so is every row of the
\* file with the same equipment_id
OnlyInErrors(rows, errors, i) ==
    \A j \in 1..Len(rows) :
        rows[j].equipment_id = rows[i].equipment_id
           => \E k \in 1..Len(errors) : errors[k] = j + 1

\* the records with this equipment_id
RecordsOf(table, id) == {e \in Rows(table) : e.equipment_id = id}

\* C25: a row of an uploaded file that is reported in errors has no effect
\* on the store: it inserts nothing and, when its equipment_id is stored, the
\* stored record has all its prior field values after the final commit.
C25_ErrorRowsChangeNothing ==
    [][(Handles("upload_equipment") /\ reply'.status = 200)
       => \A i \in 1..Len(reply'.rows) :
             OnlyInErrors(reply'.rows, reply'.res.errors, i)
                => RecordsOf(equipment', reply'.rows[i].equipment_id)
                      = RecordsOf(equipment, reply'.rows[i].equipment_id)]_vars

\* this step handles a get, an update or a delete of the table with this
\* primary key, by an id
HandlesById(kind) ==
    \/ Handles("get_" \o kind) \/ Handles("update_" \o kind) \/ Handles("delete_" \o kind)

\* the step answers 404 and changes no table when the id is not stored, and
\* a delete that succeeds leaves the id not stored
NotFoundOrGone(kind, table, table_after, pk) ==
    HandlesById(kind) =>
        /\ Position(table, pk, reply'.id) = 0
              => reply'.status = 404 /\ UNCHANGED <<workshops, equipment, workorders>>
        /\ (reply'.op = "delete_" \o kind /\ reply'.status = 200)
              => Position(table_after, pk, reply'.id) = 0

\* C29: a get, an update or a delete of an equipment, a workshop or a
\* workorder by an id that is not in the store answers 404 and leaves the
\* store unchanged; a delete that succeeds leaves its id out of the store, so
\* every following get, update or delete of that id answers 404 until a
\* record with the id is created again.
C29_NotFoundOnceDeleted ==
    [][/\ NotFoundOrGone("equipment", equipment, equipment', "equipment_id")
       /\ NotFoundOrGone("workshop", workshops, workshops', "workshop_id")
       /\ NotFoundOrGone("workorder", workorders, workorders', "workorder_number")]_vars

\* a workorder has just been deleted: a get, an update and a delete of its
\* number on the store as it is now answer 404
C29_Witness ==
    /\ Replied("delete_workorder")
    /\ reply.status = 200
    /\ get_workorder(workorders, reply.id).status = 404
    /\ \A data \in WorkorderPatches : update_workorder(workorders, reply.id, data).status = 404
    /\ delete_workorder(workorders, reply.id).status = 404

----------------------------------------------------------------------------
(* check_demand among writers *)

\* C26: when other clients commit equipment and workshop writes between the
\* queries of a check_demand call, the result the call returns is the
\* result check_demand computes in one piece on one of the states the store
\* was in at some point during the call.
C26_ResultOfOneStoreState ==
    \A c \in Clients :
        calls[c].pc = "done"
            => \E st \in stores[c] :
                  calls[c].result = Response(st[1], st[2], calls[c].req)

====
